---- MODULE Spec2Model ----
(***************************************************************************)
(* SWE-Flow-Trace: the call tracer of sweflow_trace/python/hooks.py.       *)
(*                                                                         *)
(* A CallTracer receives the interpreter's profile events (sys.setprofile) *)
(* and keeps a logical call stack, an ordered list of caller->callee edges *)
(* and the set of the keys of these edges.  The host program is modelled   *)
(* by its frame stack `real`: a call pushes a code object, a return pops   *)
(* the innermost one, so the event stream is well nested as the            *)
(* interpreter delivers it.                                                *)
(*                                                                         *)
(* Strings are sequences of tokens ("/" is os.sep), so that startswith,    *)
(* endswith, os.path.abspath and Path.relative_to are computed on the      *)
(* text as the Python functions compute them.                              *)
(*                                                                         *)
(* Further specifications over the same variables: SpecHooks is main of    *)
(* hooks.py around the tracer; SpecCollect applies collect_tests of        *)
(* trace.py to bounded reports and SpecFuncId get_test_func_id to          *)
(* bounded report entries; SpecBatch is main of trace.py with its          *)
(* worker pool and scratch directories, SpecBatchFair the same under fair  *)
(* scheduling.  Each specification keeps the variables of the other        *)
(* parts at their idle values.                                             *)
(***************************************************************************)
EXTENDS Integers, Sequences, FiniteSets, TLC

\* The longest event stream fed to one tracer.
MaxEvents == 4

VARIABLES
    base_dir,          \* CallTracer.base_dir
    cwd,               \* the process's working directory (os.getcwd())
    call_stack,        \* CallTracer.call_stack: <<relative path, func, line>>
    call_records,      \* CallTracer.call_records
    call_records_set,  \* CallTracer.call_records_set
    result,            \* outcome of the last trace_calls: what it returned or raised
    exported,          \* the list save_to_file wrote, NotSaved before
    real,              \* frame stack of the traced program (code objects)
    log,               \* the events fed to trace_calls so far
    produced,          \* the candidate records built by the call events so far
    stack_before       \* call_stack as it was before the latest call event

\* hooks.main, the process that runs one program under the tracer
VARIABLES
    main_pc,           \* position of hooks.main
    profile,           \* TRUE while sys.setprofile holds tracer.trace_calls
    ending,            \* how runpy.run_module ended, NotEnded before
    io                 \* the calls main made on the tracer in its finally block

\* trace.py: the arguments and the collection report of one invocation
VARIABLES
    report,            \* the collection report: <<type, nodeid>> entries
    random,            \* --random
    random_seed,       \* --random-seed
    max_tests,         \* --max-tests, None when absent
    runs               \* what each run of collect_tests over the report returned

\* trace.py: one application of get_test_func_id
VARIABLES
    test_result,       \* the report entry given to it: nodeid and 0-based lineno
    test_func_id       \* the string it returned, None before

\* trace.py: main, the worker pool and the scratch directory
VARIABLES
    pc,                \* position of trace.main
    returncode,        \* exit status of the collection subprocess, None before it ends
    cache_clears,      \* number of clear_python_cache calls so far
    tests,             \* the list collect_tests returned, None before
    futures,           \* per submitted test: state and value of its future
    worker,            \* per submitted test: position of trace_test in its worker
    workspace,         \* per submitted test: the _temp_dir it holds, None if none
    dirs,              \* the scratch directories that exist: name -> files
    traces,            \* generate_test_traces's list of gathered results
    corpus,            \* content of traces.json, None while not written
    consumed,          \* the futures as_completed has yielded so far
    opened,            \* the tests whose trace artifact trace_test opened
    fate               \* per submitted test: how its traced subprocess ended

tracerVars == <<base_dir, cwd, call_stack, call_records, call_records_set, result,
                exported, real, log, produced, stack_before>>
hooksVars == <<main_pc, profile, ending, io>>
argVars == <<report, random, random_seed, max_tests>>
funcVars == <<test_result, test_func_id>>
batchVars == <<pc, returncode, cache_clears, tests, futures, worker, workspace, dirs, traces,
               corpus, consumed, opened, fate>>

vars == <<tracerVars, hooksVars, argVars, funcVars, runs, batchVars>>

-----------------------------------------------------------------------------
(* Python values *)

\* A value that may be None: None is <<>>, a present value v is <<v>>.
None == <<>>

Some(v) == <<v>>

sep == "/"

\* ---- strings as token sequences ----

StartsWith(s, prefix) ==
    /\ Len(prefix) <= Len(s)
    /\ SubSeq(s, 1, Len(prefix)) = prefix

EndsWith(s, suffix) ==
    /\ Len(suffix) <= Len(s)
    /\ SubSeq(s, Len(s) - Len(suffix) + 1, Len(s)) = suffix

isabs(path) == path # <<>> /\ Head(path) = sep

RECURSIVE SplitAcc(_, _, _)
SplitAcc(s, cur, acc) ==
    IF s = <<>>
    THEN IF cur = <<>> THEN acc ELSE Append(acc, cur)
    ELSE IF Head(s) = sep
         THEN SplitAcc(Tail(s), <<>>, IF cur = <<>> THEN acc ELSE Append(acc, cur))
         ELSE SplitAcc(Tail(s), Append(cur, Head(s)), acc)

\* The non-empty components of a path, "." dropped.
Components(path) ==
    SelectSeq(SplitAcc(path, <<>>, <<>>), LAMBDA c : c # <<".">>)

RECURSIVE JoinSep(_)
JoinSep(comps) ==
    IF comps = <<>> THEN <<>>
    ELSE IF Len(comps) = 1 THEN comps[1]
    ELSE comps[1] \o <<sep>> \o JoinSep(Tail(comps))

RECURSIVE Collapse(_, _, _)
Collapse(comps, acc, absolute) ==
    IF comps = <<>> THEN acc
    ELSE IF Head(comps) = <<"..">>
         THEN IF acc # <<>> /\ acc[Len(acc)] # <<"..">>
              THEN Collapse(Tail(comps), SubSeq(acc, 1, Len(acc) - 1), absolute)
              ELSE IF absolute
                   THEN Collapse(Tail(comps), acc, absolute)
                   ELSE Collapse(Tail(comps), Append(acc, Head(comps)), absolute)
         ELSE Collapse(Tail(comps), Append(acc, Head(comps)), absolute)

normpath(path) ==
    LET comps == Collapse(Components(path), <<>>, isabs(path))
    IN  IF isabs(path) THEN <<sep>> \o JoinSep(comps)
        ELSE IF comps = <<>> THEN <<".">> ELSE JoinSep(comps)

\* os.path.abspath under the working directory wd.
abspath(path, wd) ==
    normpath(IF isabs(path) THEN path ELSE wd \o <<sep>> \o path)

\* pathlib: Path(path).relative_to(other) raises ValueError unless other's
\* parts are a prefix of path's parts (no normalisation of "..", no cwd).
relative_to_ok(path, other) ==
    /\ isabs(path) = isabs(other)
    /\ StartsWith(Components(path), Components(other))

\* str(Path(path).relative_to(other)) when it does not raise.
relative_to(path, other) ==
    LET p == Components(path)
        o == Components(other)
        rest == SubSeq(p, Len(o) + 1, Len(p))
    IN  IF rest = <<>> THEN <<".">> ELSE JoinSep(rest)

-----------------------------------------------------------------------------
(* The traced program: directories, source files and code objects *)

ProjDir == <<sep, "proj">>

LibDir == <<sep, "lib">>

\* What CallTracer(base_dir=...) may be given: None (the default) or a directory.
BaseDirArgs == {None, Some(ProjDir)}

\* Where the process may be running.
WorkingDirs == {ProjDir, LibDir}

\* Names for which str.isidentifier() is true.
Identifiers == {"f", "g", "start", "class"}

\* keyword.kwlist, restricted to the names of the model.
Keywords == {"class"}

Code(file, name, line) ==
    [co_filename |-> file, co_name |-> name, co_firstlineno |-> line]

\* The code objects of the traced program (frame.f_code; at a call event
\* frame.f_lineno is the code object's first line).
Codes ==
    { Code(<<sep, "proj", sep, "a", ".py">>, "f", 1),
      Code(<<sep, "proj", sep, "a", ".py">>, "g", 5),
      Code(<<sep, "proj", sep, "a", ".py">>, "g", 9),
      Code(<<sep, "lib", sep, "x", ".py">>, "g", 1),
      Code(<<"a", ".py">>, "f", 1),
      Code(<<sep, "proj", sep, "a", ".txt">>, "f", 1),
      Code(<<sep, "proj", "2", sep, "a", ".py">>, "f", 1),
      Code(<<sep, "proj", sep, "a", ".py">>, "class", 1),
      Code(<<sep, "proj", sep, "a", ".py">>, "<module>", 1) }

\* CallTracer.start, the frame in which sys.setprofile is called: its return
\* is the first event the tracer sees.
StartCode == Code(<<sep, "lib", sep, "hooks", ".py">>, "start", 100)

Event(kind, code) ==
    [event |-> kind, file_name |-> code.co_filename,
     func_name |-> code.co_name, lineno |-> code.co_firstlineno]

-----------------------------------------------------------------------------
(* CallTracer *)

\* CallTracer._in_base_dir
in_base_dir(file_name) ==
    LET abs_path == abspath(file_name, cwd)
    IN  /\ StartsWith(abs_path, base_dir \o <<sep>>)
        /\ EndsWith(abs_path, <<".py">>)

\* CallTracer._is_function
is_function(func_name) ==
    IF func_name \notin Identifiers THEN FALSE
    ELSE IF func_name \in Keywords THEN FALSE
    ELSE TRUE

\* The field objects of a record, in insertion order.
Frame3(filepath, lineno, func_name) ==
    [filepath |-> filepath, lineno |-> lineno, func_name |-> func_name]

\* caller_file, caller_func, caller_line: the top of the stack, or None's.
caller_of(stack) ==
    IF stack # <<>>
    THEN LET top == stack[Len(stack)]
         IN  Frame3(Some(top[1]), Some(top[3]), Some(top[2]))
    ELSE Frame3(None, None, None)

\* json.dumps(obj, sort_keys=True) of one caller/callee object: its pairs in key order.
dumps_frame(o) ==
    << <<"filepath", o.filepath>>, <<"func_name", o.func_name>>, <<"lineno", o.lineno>> >>

\* record_key = json.dumps(new_record, sort_keys=True)
json_dumps(record) ==
    << <<"callee", dumps_frame(record.callee)>>,
       <<"caller", dumps_frame(record.caller)>> >>

\* A tracer that forgets the keys it has seen.
already_recorded_never(record_key) == FALSE

\* "skip if the record is already in the set"
already_recorded(record_key) == record_key \in call_records_set

\* A tracer that forgets to test the caller's fields.
any_none_callee_only(caller, file_name, func_name, lineno) ==
    \/ Some(file_name) = None
    \/ Some(func_name) = None
    \/ Some(lineno) = None

\* "skip if any of the fields are None"
any_none(caller, file_name, func_name, lineno) ==
    \/ caller.filepath = None
    \/ caller.func_name = None
    \/ caller.lineno = None
    \/ Some(file_name) = None
    \/ Some(func_name) = None
    \/ Some(lineno) = None

\* A tracer that puts the newest record first.
append_record_front(records, new_record) == <<new_record>> \o records

\* self.call_records.append(new_record)
append_record(records, new_record) == Append(records, new_record)

\* A tracer that never remembers a key.
add_key_never(keys, record_key) == keys

\* self.call_records_set.add(record_key)
add_key(keys, record_key) == keys \cup {record_key}

\* The test of the return branch on the top frame.
pop_allowed(top, func_name) ==
    /\ in_base_dir(top[1])
    /\ is_function(top[2])
    /\ top[2] = func_name

\* No event was handled yet.
NoCall == "no call"

Returned == "trace_calls"

Raised == "ValueError"

\* CallTracer.trace_calls; `produced` keeps the records the call branch built.
trace_calls(file_name, func_name, lineno, event) ==
    IF event = "call"
    THEN IF ~in_base_dir(file_name) \/ ~is_function(func_name)
         THEN /\ result' = Returned
              /\ UNCHANGED <<call_stack, call_records, call_records_set, produced>>
         ELSE IF ~relative_to_ok(file_name, base_dir)
         THEN \* Path(file_name).relative_to(self.base_dir) raises before the push
              /\ result' = Raised
              /\ UNCHANGED <<call_stack, call_records, call_records_set, produced>>
         ELSE LET caller == caller_of(call_stack)
                  callee_path == relative_to(file_name, base_dir)
                  new_record ==
                      [caller |-> caller,
                       callee |-> Frame3(Some(callee_path), Some(lineno), Some(func_name))]
                  record_key == json_dumps(new_record)
              IN  /\ call_stack' = Append(call_stack, <<callee_path, func_name, lineno>>)
                  /\ produced' = Append(produced, new_record)
                  /\ result' = Returned
                  /\ IF already_recorded(record_key)
                     THEN UNCHANGED <<call_records, call_records_set>>
                     ELSE IF any_none(caller, file_name, func_name, lineno)
                     THEN UNCHANGED <<call_records, call_records_set>>
                     ELSE /\ call_records_set' = add_key(call_records_set, record_key)
                          /\ call_records' = append_record(call_records, new_record)
    ELSE IF event = "return"
    THEN /\ IF call_stack # <<>> /\ pop_allowed(call_stack[Len(call_stack)], func_name)
            THEN call_stack' = SubSeq(call_stack, 1, Len(call_stack) - 1)
            ELSE UNCHANGED call_stack
         /\ result' = Returned
         /\ UNCHANGED <<call_records, call_records_set, produced>>
    ELSE /\ result' = Returned
         /\ UNCHANGED <<call_stack, call_records, call_records_set, produced>>

\* json.dump(self.call_records): the array of the records, each with its
\* keys in insertion order.
json_dump(records) ==
    [i \in 1..Len(records) |->
        << <<"caller", records[i].caller>>, <<"callee", records[i].callee>> >>]

NotSaved == None

-----------------------------------------------------------------------------
(* The state machine *)

\* How hooks.main ended the traced program: not yet.
NotEnded == "running"

\* The tracer taken alone: its hook is installed and the program runs.
HooksIdle ==
    /\ main_pc = "run_module"
    /\ profile = TRUE
    /\ ending = NotEnded
    /\ io = <<>>

\* No invocation of trace.py.
ArgsIdle ==
    /\ report = <<>>
    /\ random = FALSE
    /\ random_seed = 0
    /\ max_tests = None
    /\ runs = <<>>

\* No application of get_test_func_id.
FuncIdle ==
    /\ test_result = [nodeid |-> <<>>, lineno |-> 0]
    /\ test_func_id = None

BatchIdle ==
    /\ pc = "idle"
    /\ returncode = None
    /\ cache_clears = 0
    /\ tests = None
    /\ futures = <<>>
    /\ worker = <<>>
    /\ workspace = <<>>
    /\ dirs = <<>>
    /\ traces = <<>>
    /\ corpus = None
    /\ consumed = {}
    /\ opened = {}
    /\ fate = <<>>

\* CallTracer.__init__
TracerInit ==
    /\ \E arg \in BaseDirArgs, wd \in WorkingDirs :
          /\ cwd = wd
          /\ base_dir = IF arg = None THEN wd ELSE arg[1]
    /\ call_stack = <<>>
    /\ call_records = <<>>
    /\ call_records_set = {}
    /\ result = NoCall
    /\ exported = NotSaved
    /\ real = <<>>
    /\ log = <<>>
    /\ produced = <<>>
    /\ stack_before = <<>>

Init ==
    /\ TracerInit
    /\ HooksIdle
    /\ ArgsIdle
    /\ FuncIdle
    /\ BatchIdle

Tracing == exported = NotSaved /\ Len(log) < MaxEvents

\* The traced program enters a function: a "call" event for its frame.
CallEvent(code) ==
    /\ Tracing
    /\ real' = Append(real, code)
    /\ log' = Append(log, Event("call", code))
    /\ stack_before' = call_stack
    /\ trace_calls(code.co_filename, code.co_name, code.co_firstlineno, "call")
    /\ UNCHANGED <<base_dir, cwd, exported>>
    /\ UNCHANGED <<hooksVars, argVars, funcVars, runs, batchVars>>

\* The innermost frame of the traced program returns: a "return" event for it.
ReturnEvent ==
    /\ Tracing
    /\ real # <<>>
    /\ LET code == real[Len(real)]
       IN  /\ real' = SubSeq(real, 1, Len(real) - 1)
           /\ log' = Append(log, Event("return", code))
           /\ trace_calls(code.co_filename, code.co_name, code.co_firstlineno, "return")
    /\ UNCHANGED <<base_dir, cwd, exported, stack_before>>
    /\ UNCHANGED <<hooksVars, argVars, funcVars, runs, batchVars>>

\* CallTracer.start returns right after sys.setprofile: a "return" event for
\* a frame that had no "call" event.
StrayReturnEvent ==
    /\ Tracing
    /\ real = <<>>
    /\ log' = Append(log, Event("return", StartCode))
    /\ trace_calls(StartCode.co_filename, StartCode.co_name, StartCode.co_firstlineno, "return")
    /\ UNCHANGED <<base_dir, cwd, exported, real, stack_before>>
    /\ UNCHANGED <<hooksVars, argVars, funcVars, runs, batchVars>>

\* The innermost frame calls a builtin: a "c_call" event for that frame.
CCallEvent ==
    /\ Tracing
    /\ real # <<>>
    /\ LET code == real[Len(real)]
       IN  /\ log' = Append(log, Event("c_call", code))
           /\ trace_calls(code.co_filename, code.co_name, code.co_firstlineno, "c_call")
    /\ UNCHANGED <<base_dir, cwd, exported, real, stack_before>>
    /\ UNCHANGED <<hooksVars, argVars, funcVars, runs, batchVars>>

\* CallTracer.save_to_file, called by main after tracer.stop(): no event
\* follows it.
save_to_file ==
    /\ exported = NotSaved
    /\ exported' = Some(json_dump(call_records))
    /\ UNCHANGED <<base_dir, cwd, call_stack, call_records, call_records_set,
                   result, real, log, produced, stack_before>>
    /\ UNCHANGED <<hooksVars, argVars, funcVars, runs, batchVars>>

Next ==
    \/ \E code \in Codes : CallEvent(code)
    \/ ReturnEvent
    \/ StrayReturnEvent
    \/ CCallEvent
    \/ save_to_file

Spec == Init /\ [][Next]_vars

-----------------------------------------------------------------------------
(* Vocabulary of the properties *)

\* An eligible frame: its source file lies under the base directory and is a
\* .py file, and its function name is a valid non-keyword identifier.
Eligible(e) == in_base_dir(e.file_name) /\ is_function(e.func_name)

EligibleCode(code) == Eligible(Event("call", code))

\* The path of an eligible frame's file below the base directory.
PathBelowBase(file_name) ==
    LET abs_path == abspath(file_name, cwd)
    IN  SubSeq(abs_path, Len(base_dir) + 2, Len(abs_path))

\* The stack frame that stands for the frame of event e.
FrameOf(e) == <<PathBelowBase(e.file_name), e.func_name, e.lineno>>

\* A stack frame (path below the base directory, function, line) is eligible.
EligibleFrame(filepath, func_name) ==
    /\ StartsWith(normpath(base_dir \o <<sep>> \o filepath), base_dir \o <<sep>>)
    /\ EndsWith(filepath, <<".py">>)
    /\ func_name \in Identifiers \ Keywords

\* The edge from the frame of event a to the frame of event b.
EdgeOf(a, b) ==
    [caller |-> Frame3(Some(PathBelowBase(a.file_name)), Some(a.lineno), Some(a.func_name)),
     callee |-> Frame3(Some(PathBelowBase(b.file_name)), Some(b.lineno), Some(b.func_name))]

\* The structural key of an edge.
StructuralKey(record) ==
    <<record.caller.filepath, record.caller.func_name, record.caller.lineno,
      record.callee.filepath, record.callee.func_name, record.callee.lineno>>

Last(s) == s[Len(s)]

\* The step feeds one event to trace_calls; LastEvent' is that event.
EventStep == Len(log') = Len(log) + 1

LastEvent == Last(log)

\* The frames of the traced program that are active and eligible.
ActiveEligible == {i \in DOMAIN real : EligibleCode(real[i])}

-----------------------------------------------------------------------------
(* C1 *)

\* C1: stack balance -- after every prefix of the event stream, len(call_stack)
\* is the number of eligible call events whose matching return has not yet
\* occurred, that is, of the active eligible frames of the traced program.
C1_StackBalance == Len(call_stack) = Cardinality(ActiveEligible)

-----------------------------------------------------------------------------
(* C2 *)

\* C2: every ineligible event, a call or a return, leaves the call stack and
\* the edge list exactly as they were.
C2_IneligibleIgnored ==
    [][ (EventStep /\ LastEvent'.event \in {"call", "return"} /\ ~Eligible(LastEvent'))
            => (call_stack' = call_stack /\ call_records' = call_records) ]_vars

-----------------------------------------------------------------------------
(* C3 *)

\* In-scope A has called out-of-scope X, which is the innermost active frame,
\* and the tracer holds A as its innermost frame.
InsideTransparentCall ==
    /\ Len(real) >= 2
    /\ ~EligibleCode(real[Len(real)])
    /\ EligibleCode(real[Len(real) - 1])
    /\ call_stack # <<>>
    /\ Last(call_stack) = FrameOf(Event("call", real[Len(real) - 1]))

\* C3: transparency -- when in-scope A calls out-of-scope X which calls in-scope
\* B, the edge A->B is recorded with A as caller; and when X returns, A is
\* still the frame used as caller for later eligible calls, whatever X's
\* function name is.
C3_Transparency ==
    [][ /\ (InsideTransparentCall /\ EventStep /\ LastEvent'.event = "call"
               /\ Eligible(LastEvent'))
            => \E i \in DOMAIN call_records' :
                  call_records'[i] = EdgeOf(Event("call", real[Len(real) - 1]), LastEvent')
        /\ (InsideTransparentCall /\ EventStep /\ LastEvent'.event = "return")
            => (call_stack' # <<>> /\ caller_of(call_stack') = caller_of(call_stack))
      ]_vars

-----------------------------------------------------------------------------
(* C4 *)

\* C4: dedup -- no two entries of call_records have the same structural key,
\* however many times the same caller->callee call is repeated.
C4_Dedup ==
    \A i, j \in DOMAIN call_records :
        StructuralKey(call_records[i]) = StructuralKey(call_records[j]) => i = j

\* The same caller->callee call was made twice and its edge is recorded.
C4_RepeatedCall ==
    \E i, j \in DOMAIN produced :
        /\ i < j
        /\ StructuralKey(produced[i]) = StructuralKey(produced[j])
        /\ \E k \in DOMAIN call_records : call_records[k] = produced[i]

-----------------------------------------------------------------------------
(* C5 *)

\* C5: every recorded edge has a non-null caller and all six fields present,
\* and its caller and its callee are eligible frames; so the eligible call
\* made with an empty stack records no edge.
C5_EdgesWellFormed ==
    \A i \in DOMAIN call_records :
        LET r == call_records[i]
        IN  /\ \A v \in {r.caller.filepath, r.callee.filepath} : v # None
            /\ \A v \in {r.caller.func_name, r.callee.func_name} : v # None
            /\ \A v \in {r.caller.lineno, r.callee.lineno} : v # None
            /\ EligibleFrame(r.caller.filepath[1], r.caller.func_name[1])
            /\ EligibleFrame(r.callee.filepath[1], r.callee.func_name[1])

\* An eligible call was made with an empty stack and pushed its frame, an
\* eligible call made from it recorded an edge, and the root call left none.
C5_RootCallThenEdge ==
    /\ Len(produced) >= 2
    /\ produced[1].caller.filepath = None
    /\ call_records # <<>>
    /\ \A k \in DOMAIN call_records : call_records[k] # produced[1]

-----------------------------------------------------------------------------
(* C6 *)

\* C6: on a return event the top frame is popped exactly when the stack is
\* non-empty, the top frame is eligible and its function name equals the
\* returning function's name; otherwise the stack is unchanged; a pop removes
\* exactly one frame; a return never changes the edge list.
C6_ReturnPops ==
    [][ (EventStep /\ LastEvent'.event = "return")
            => LET top == Last(call_stack)
                   pops == /\ call_stack # <<>>
                           /\ EligibleFrame(top[1], top[2])
                           /\ top[2] = LastEvent'.func_name
               IN  /\ pops => call_stack' = SubSeq(call_stack, 1, Len(call_stack) - 1)
                   /\ ~pops => call_stack' = call_stack
                   /\ call_records' = call_records
      ]_vars

-----------------------------------------------------------------------------
(* C7 *)

\* The latest two events are an eligible call and the return of the same frame.
CallThenReturn ==
    /\ Len(log) >= 2
    /\ log[Len(log) - 1].event = "call"
    /\ Eligible(log[Len(log) - 1])
    /\ LastEvent = [log[Len(log) - 1] EXCEPT !.event = "return"]

\* C7: for any configured base directory, an eligible call event immediately
\* followed by the return event of the same frame leaves the call stack equal
\* to what it was before the call.
C7_CallReturnRestores == CallThenReturn => call_stack = stack_before

-----------------------------------------------------------------------------
(* C8 *)

RECURSIVE FirstSeen(_, _)
FirstSeen(s, acc) ==
    IF s = <<>> THEN acc
    ELSE IF \E k \in DOMAIN acc : StructuralKey(acc[k]) = StructuralKey(Head(s))
         THEN FirstSeen(Tail(s), acc)
         ELSE FirstSeen(Tail(s), Append(acc, Head(s)))

\* The edges the call events produced, each at its first occurrence.
FirstSeenEdges ==
    FirstSeen(SelectSeq(produced, LAMBDA r : r.caller.filepath # None), <<>>)

\* json.load of the written array.
Loaded(array) ==
    [i \in DOMAIN array |-> [caller |-> array[i][1][2], callee |-> array[i][2][2]]]

\* C8: the exported edge list is in first-seen order -- the edges appear in the
\* order of the first call event that produced each structural key.
C8_FirstSeenOrder ==
    /\ call_records = FirstSeenEdges
    /\ exported # NotSaved => Loaded(exported[1]) = FirstSeenEdges

\* Two different edges were exported, and one of them was produced again
\* after the other had been seen.
C8_ExportedTwoEdges ==
    /\ exported # NotSaved
    /\ Len(exported[1]) >= 2
    /\ \E i, j, k \in DOMAIN produced :
          /\ i < j /\ j < k
          /\ produced[i] = produced[k]
          /\ produced[i] # produced[j]
          /\ produced[i].caller.filepath # None
          /\ produced[j].caller.filepath # None

-----------------------------------------------------------------------------
(* C9 *)

\* The events so far are n calls of distinct eligible frames, each made by the
\* one before, followed by the returns of the m innermost of them.
ChainRun(n, m) ==
    /\ Len(log) = n + m
    /\ \A i \in 1..n : log[i].event = "call" /\ Eligible(log[i])
    /\ \A i, j \in 1..n : log[i] = log[j] => i = j
    /\ \A j \in 1..m : log[n + j] = [log[n + 1 - j] EXCEPT !.event = "return"]

ChainEdges(n) == [i \in 1..(n - 1) |-> EdgeOf(log[i], log[i + 1])]

\* C9: starting from an empty stack, a nest of eligible calls f1 calls f2 ...
\* calls fn, returning in reverse order, yields exactly the n-1 edges
\* f1->f2, ..., f(n-1)->fn, and no edge for the root call; these are exported.
C9_ChainEdges ==
    \A n \in 1..MaxEvents, m \in 0..MaxEvents :
        (m <= n /\ ChainRun(n, m))
            => /\ call_records = ChainEdges(n)
               /\ exported # NotSaved => Loaded(exported[1]) = ChainEdges(n)

-----------------------------------------------------------------------------
(* C10 *)

\* C10: the hook never faults -- whatever the event, the file name and the
\* stack, trace_calls completes without raising and returns itself.
C10_NeverFaults == result # Raised

-----------------------------------------------------------------------------
(* trace.py: collect_tests *)

\* The longest collection report.
MaxEntries == 3

\* A pytest node id is a sequence of tokens; "[" and "]" are single characters.
NodeId(name) == <<"m.py", "::", name>>
Param(id, p) == id \o <<"[">> \o p \o <<"]">>

\* One entry of a collector's result list.
Entry(type, nodeid) == [type |-> type, nodeid |-> nodeid]

Entries ==
    { Entry("Function", NodeId("t1")),
      Entry("Function", Param(NodeId("t1"), <<"a">>)),
      Entry("Function", Param(NodeId("t1"), <<"a", "[", "0", "]">>)),
      Entry("TestCaseFunction", NodeId("t2")),
      Entry("Function", NodeId("t3")),
      Entry("Module", <<"m.py">>),
      Entry("Class", NodeId("C")) }

SeqsUpTo(S, n) == UNION { [1..k -> S] : k \in 0..n }

Reports == SeqsUpTo(Entries, MaxEntries)

\* trace.py line 120: the entry types that are kept.
is_test_function(type) == type \in {"Function", "TestCaseFunction"}

\* trace.py lines 117-122: the node ids of the kept entries, in report order.
RECURSIVE kept_nodeids(_)
kept_nodeids(rep) ==
    IF rep = <<>> THEN <<>>
    ELSE (IF is_test_function(Head(rep).type) THEN <<Head(rep).nodeid>> ELSE <<>>)
         \o kept_nodeids(Tail(rep))

\* The position of the first "]" of s, 0 if it has none.
FirstClose(s) ==
    IF \E j \in 1..Len(s) : s[j] = "]"
    THEN CHOOSE j \in 1..Len(s) : s[j] = "]" /\ \A k \in 1..(j - 1) : s[k] # "]"
    ELSE 0

\* re.sub(r"\[.*?\]", "", s): scanning from the left, every "[" that has a
\* "]" after it is removed together with the text up to the nearest "]".
RECURSIVE re_sub_brackets(_)
re_sub_brackets(s) ==
    IF s = <<>> THEN <<>>
    ELSE IF Head(s) = "[" /\ FirstClose(Tail(s)) # 0
         THEN re_sub_brackets(SubSeq(Tail(s), FirstClose(Tail(s)) + 1, Len(Tail(s))))
         ELSE <<Head(s)>> \o re_sub_brackets(Tail(s))

Range(f) == { f[i] : i \in DOMAIN f }

\* trace.py line 126: set([...]) of the rewritten node ids.
dedup_set(ids) == { re_sub_brackets(ids[i]) : i \in DOMAIN ids }

\* list(set): every enumeration of the set without repetition; which one a
\* process gets depends on its string hash seed.
ListsOfSet(S) ==
    { f \in [1..Cardinality(S) -> S] : Range(f) = S }

\* rnd.seed(seed); rnd.shuffle(xs): a permutation of the positions fixed by
\* the seed and the length (here: a rotation by seed mod length).
shuffle(xs, seed) ==
    IF xs = <<>> THEN xs
    ELSE [i \in 1..Len(xs) |-> xs[((i - 1 + seed) % Len(xs)) + 1]]

\* trace.py line 134: "if max_tests:", the truth value of the argument.
max_tests_given(cap) == cap # None /\ cap[1] # 0

\* tests[:n] for n >= 0
Prefix(xs, n) == SubSeq(xs, 1, IF n < Len(xs) THEN n ELSE Len(xs))

\* trace.py lines 129-132: the list after the optional shuffle.
ordered_tests(listed, rand, seed) ==
    IF rand THEN shuffle(listed, seed) ELSE listed

\* trace.py lines 115-138 for the enumeration `listed` of the set.
collect_tests(listed, rand, seed, cap) ==
    IF max_tests_given(cap)
    THEN Prefix(ordered_tests(listed, rand, seed), cap[1])
    ELSE ordered_tests(listed, rand, seed)

Seeds == {42, 7}
Caps == {None, Some(0), Some(1), Some(2)}

CollectInit ==
    /\ report \in Reports
    /\ random \in BOOLEAN
    /\ random_seed \in Seeds
    /\ max_tests \in Caps
    /\ runs = <<>>

\* One run of collect_tests over the report, in a process of its own.
CollectRun ==
    /\ Len(runs) < 2
    /\ \E listed \in ListsOfSet(dedup_set(kept_nodeids(report))) :
          runs' = Append(runs, [listed |-> listed,
                                ordered |-> ordered_tests(listed, random, random_seed),
                                returned |-> collect_tests(listed, random, random_seed, max_tests)])
    /\ UNCHANGED <<tracerVars, hooksVars, argVars, funcVars, batchVars>>

InitCollect ==
    /\ TracerInit /\ cwd = ProjDir /\ base_dir = ProjDir
    /\ HooksIdle
    /\ CollectInit
    /\ FuncIdle
    /\ BatchIdle

NextCollect == CollectRun

SpecCollect == InitCollect /\ [][NextCollect]_vars

-----------------------------------------------------------------------------
(* trace.py: get_test_func_id *)

\* The largest 0-based line number of a report entry.
MaxLine == 9

\* str.split("::"): the pieces between the "::" tokens, empty ones kept.
RECURSIVE split_colons(_, _, _)
split_colons(s, cur, acc) ==
    IF s = <<>> THEN Append(acc, cur)
    ELSE IF Head(s) = "::"
         THEN split_colons(Tail(s), <<>>, Append(acc, cur))
         ELSE split_colons(Tail(s), Append(cur, Head(s)), acc)

DecimalDigits == <<"0", "1", "2", "3", "4", "5", "6", "7", "8", "9">>

\* str(n) for n >= 0, as the f-string formats the line number.
RECURSIVE str_int(_)
str_int(n) ==
    IF n < 10 THEN <<DecimalDigits[n + 1]>>
    ELSE str_int(n \div 10) \o <<DecimalDigits[(n % 10) + 1]>>

\* trace.py line 175: lineno = test_result['lineno'] + 1
one_based(lineno) == lineno + 1

\* trace.py lines 168-176
get_test_func_id(res) ==
    LET func_node == re_sub_brackets(res.nodeid)
        pieces == split_colons(func_node, <<>>, <<>>)
        filepath == pieces[1]
        func_name == pieces[Len(pieces)]
    IN  filepath \o <<":">> \o str_int(one_based(res.lineno)) \o <<":">> \o func_name

TestResult(nodeid, lineno) == [nodeid |-> nodeid, lineno |-> lineno]

\* Node ids of report entries: plain, parametrized, class-based.
ResultNodeIds ==
    { NodeId("t1"),
      Param(NodeId("t1"), <<"a", "-", "b">>),
      Param(NodeId("t1"), <<"a", "[", "0", "]">>),
      Param(NodeId("t1"), <<"a", "::", "b">>),
      <<"m.py", "::", "C", "::", "t1">>,
      Param(<<"m.py", "::", "C", "::", "t1">>, <<"a">>) }

InitFuncId ==
    /\ TracerInit /\ cwd = ProjDir /\ base_dir = ProjDir
    /\ HooksIdle
    /\ ArgsIdle
    /\ BatchIdle
    /\ \E n \in ResultNodeIds, l \in 0..MaxLine : test_result = TestResult(n, l)
    /\ test_func_id = None

\* get_test_func_id is applied to the entry.
ApplyGetTestFuncId ==
    /\ test_func_id = None
    /\ test_func_id' = Some(get_test_func_id(test_result))
    /\ UNCHANGED <<test_result, tracerVars, hooksVars, argVars, runs, batchVars>>

NextFuncId == ApplyGetTestFuncId

SpecFuncId == InitFuncId /\ [][NextFuncId]_vars

-----------------------------------------------------------------------------
(* trace.py: main, generate_test_traces and trace_test *)

\* The largest number of tests one invocation submits.
MaxTests == 2

TestNames == <<"t1", "t2", "t3", "t4">>

\* The report of a project with n test functions in one module.
BatchReport(n) ==
    <<Entry("Module", <<"m.py">>)>>
    \o [i \in 1..n |-> Entry("Function", NodeId(TestNames[i]))]

\* Exit statuses of the collection subprocess: success, failure.
ReturnCodes == {0, 1}

\* The exit status is not looked at.
returncode_ignored(rc) == FALSE

\* trace.py lines 72 and 161: "if result.returncode != 0"
returncode_failed(rc) == rc # 0

\* How one traced subprocess can end and what it leaves in its workspace:
\* its exit ("timeout": cut off by subprocess.run), the state of report.json
\* (for a parsed one, the outcome of its first test) and of trace.json.
Fate(exit, rep, trace) == [exit |-> exit, report |-> rep, trace |-> trace]

Fates ==
    { Fate("timeout", "missing", "missing"),
      Fate("1", "passed", "json"),
      Fate("0", "missing", "json"),
      Fate("0", "malformed", "json"),
      Fate("0", "skipped", "json"),
      Fate("0", "passed", "missing"),
      Fate("0", "passed", "malformed"),
      Fate("0", "passed", "json") }

NoFate == Fate("running", "missing", "missing")

\* The files of a workspace: report.json and trace.json; `by` is the test
\* whose traced run wrote them.  The first entry of the report carries the
\* node id of that test and the line of its function (a line fixed by the id).
Files(rep, trace, by) ==
    [report |-> rep,
     result |-> TestResult(by, Len(by)),
     trace |-> [state |-> trace, by |-> by]]
EmptyDir == Files("missing", "missing", <<>>)

DirNames == 1..MaxTests

\* Every test is given the same directory.
mkdtemp_shared(existing) == CHOOSE d \in DirNames : TRUE

\* tempfile.mkdtemp: a name under temp_dir that does not exist yet.
mkdtemp(existing) == CHOOSE d \in DirNames : d \notin existing

\* What open() finds at a workspace path.
files_at(ws) == IF ws # None /\ ws[1] \in DOMAIN dirs THEN dirs[ws[1]] ELSE EmptyDir

\* The outcome is not looked at.
outcome_any(outcome) == TRUE

\* trace.py line 201: test_result['outcome'] != 'passed'
outcome_passed(outcome) == outcome = "passed"

\* json.load(open(report.json)) and tests[0] succeed.
report_loaded(files) == files.report \notin {"missing", "malformed"}

\* trace.py line 204 is reached: the trace artifact is opened.
trace_opened(exit, files) ==
    /\ ~returncode_failed(IF exit = "0" THEN 0 ELSE 1)
    /\ report_loaded(files)
    /\ outcome_passed(files.report)

TraceRecord(test, func_id, relations) ==
    [test_id |-> test, test_func_id |-> func_id, call_relations |-> relations]

\* trace.py lines 179-214: what trace_test returns; every exception ends in
\* the except clause, which returns None.
trace_test(test, exit, files) ==
    IF trace_opened(exit, files) /\ files.trace.state = "json"
    THEN Some(TraceRecord(test, get_test_func_id(files.result), files.trace.by))
    ELSE None

Future(state, value) == [state |-> state, value |-> value]

Submitted == DOMAIN futures

InitBatch ==
    /\ TracerInit /\ cwd = ProjDir /\ base_dir = ProjDir
    /\ HooksIdle
    /\ \E n \in 0..MaxTests : report = BatchReport(n)
    /\ random = FALSE
    /\ random_seed = 42
    /\ max_tests = None
    /\ runs = <<>>
    /\ FuncIdle
    /\ pc = "collect_tests"
    /\ returncode = None
    /\ cache_clears = 0
    /\ tests = None
    /\ futures = <<>>
    /\ worker = <<>>
    /\ workspace = <<>>
    /\ dirs = <<>>
    /\ traces = <<>>
    /\ corpus = None
    /\ consumed = {}
    /\ opened = {}
    /\ fate = <<>>

\* main calls collect_tests, which calls run_pytest: the cache is cleared
\* whatever the exit status, and a non-zero status raises out of main.
CollectTests ==
    /\ pc = "collect_tests"
    /\ cache_clears' = cache_clears + 1
    /\ \E rc \in ReturnCodes :
          /\ returncode' = Some(rc)
          /\ IF returncode_failed(rc)
             THEN /\ pc' = "raised"
                  /\ tests' = tests
             ELSE /\ pc' = "generate_test_traces"
                  /\ \E listed \in ListsOfSet(dedup_set(kept_nodeids(report))) :
                        tests' = Some(collect_tests(listed, random, random_seed, max_tests))
    /\ UNCHANGED <<futures, worker, workspace, dirs, traces, corpus, consumed, opened, fate>>
    /\ UNCHANGED <<tracerVars, hooksVars, argVars, funcVars, runs>>

\* generate_test_traces lines 229-230: one future per test.
Submit ==
    /\ pc = "generate_test_traces"
    /\ pc' = "as_completed"
    /\ futures' = [i \in 1..Len(tests[1]) |-> Future("pending", None)]
    /\ worker' = [i \in 1..Len(tests[1]) |-> "queued"]
    /\ workspace' = [i \in 1..Len(tests[1]) |-> None]
    /\ fate' = [i \in 1..Len(tests[1]) |-> NoFate]
    /\ UNCHANGED <<cache_clears, tests, dirs, traces, corpus, consumed, opened>>
    /\ UNCHANGED <<returncode, tracerVars, hooksVars, argVars, funcVars, runs>>

PoolBroken == \E i \in Submitted : futures[i].state = "broken"

\* A worker takes test i: trace_test enters TemporaryDirectory and starts the
\* traced subprocess.
StartTest(i) ==
    /\ worker[i] = "queued"
    /\ ~PoolBroken
    /\ LET d == mkdtemp(DOMAIN dirs)
       IN  /\ dirs' = [x \in DOMAIN dirs \cup {d} |-> IF x = d THEN EmptyDir ELSE dirs[x]]
           /\ workspace' = [workspace EXCEPT ![i] = Some(d)]
    /\ worker' = [worker EXCEPT ![i] = "subprocess"]
    /\ futures' = [futures EXCEPT ![i] = Future("running", None)]
    /\ UNCHANGED <<pc, cache_clears, tests, traces, corpus, consumed, opened, fate>>
    /\ UNCHANGED <<returncode, tracerVars, hooksVars, argVars, funcVars, runs>>

\* The traced subprocess of test i ends, or is cut off by the timeout of
\* subprocess.run, leaving its files in the workspace it was given.
SubprocessEnds(i) ==
    /\ worker[i] = "subprocess"
    /\ \E f \in Fates :
          /\ fate' = [fate EXCEPT ![i] = f]
          /\ dirs' = IF workspace[i][1] \in DOMAIN dirs
                     THEN [dirs EXCEPT ![workspace[i][1]] = Files(f.report, f.trace, tests[1][i])]
                     ELSE dirs
    /\ worker' = [worker EXCEPT ![i] = "run_trace_test"]
    /\ UNCHANGED <<pc, cache_clears, tests, futures, workspace, traces, corpus, consumed, opened>>
    /\ UNCHANGED <<returncode, tracerVars, hooksVars, argVars, funcVars, runs>>

\* The rest of trace_test for test i: run_trace_test returns or raises, the
\* files are read, the TemporaryDirectory is left (and so removed) and the
\* value becomes the result of the future.
FinishTest(i) ==
    /\ worker[i] = "run_trace_test"
    /\ LET files == files_at(workspace[i])
       IN  /\ futures' = [futures EXCEPT
                            ![i] = Future("finished", trace_test(tests[1][i], fate[i].exit, files))]
           /\ opened' = IF trace_opened(fate[i].exit, files) THEN opened \cup {i} ELSE opened
    /\ dirs' = [x \in DOMAIN dirs \ {workspace[i][1]} |-> dirs[x]]
    /\ workspace' = [workspace EXCEPT ![i] = None]
    /\ worker' = [worker EXCEPT ![i] = "returned"]
    /\ UNCHANGED <<pc, cache_clears, tests, traces, corpus, consumed, fate>>
    /\ UNCHANGED <<returncode, tracerVars, hooksVars, argVars, funcVars, runs>>

\* The worker process handling test i dies (killed, out of memory, fatal
\* signal): the pool is broken, its other workers are terminated, and every
\* future that has no result yet fails with BrokenProcessPool.
WorkerCrash(i) ==
    /\ worker[i] \in {"subprocess", "run_trace_test"}
    /\ worker' = [j \in Submitted |->
                    IF worker[j] \in {"subprocess", "run_trace_test"} THEN "dead" ELSE worker[j]]
    /\ futures' = [j \in Submitted |->
                    IF futures[j].state = "finished" THEN futures[j] ELSE Future("broken", None)]
    /\ UNCHANGED <<pc, cache_clears, tests, workspace, dirs, traces, corpus, consumed, opened, fate>>
    /\ UNCHANGED <<returncode, tracerVars, hooksVars, argVars, funcVars, runs>>

\* generate_test_traces lines 232-237: as_completed yields future i and
\* future.result() returns its value or raises what the future holds.
Consume(i) ==
    /\ pc = "as_completed"
    /\ i \notin consumed
    /\ futures[i].state \in {"finished", "broken"}
    /\ consumed' = consumed \cup {i}
    /\ IF futures[i].state = "broken"
       THEN /\ pc' = "raised"
            /\ traces' = traces
       ELSE /\ pc' = pc
            /\ traces' = IF futures[i].value # None
                         THEN Append(traces, futures[i].value[1])
                         ELSE traces
    /\ UNCHANGED <<cache_clears, tests, futures, worker, workspace, dirs, corpus, opened, fate>>
    /\ UNCHANGED <<returncode, tracerVars, hooksVars, argVars, funcVars, runs>>

\* generate_test_traces lines 239-246: after the loop, the cache is cleared
\* and traces.json is written.
WriteCorpus ==
    /\ pc = "as_completed"
    /\ consumed = Submitted
    /\ pc' = "returned"
    /\ cache_clears' = cache_clears + 1
    /\ corpus' = Some(traces)
    /\ UNCHANGED <<tests, futures, worker, workspace, dirs, traces, consumed, opened, fate>>
    /\ UNCHANGED <<returncode, tracerVars, hooksVars, argVars, funcVars, runs>>

NextBatch ==
    \/ CollectTests
    \/ Submit
    \/ \E i \in Submitted : StartTest(i)
    \/ \E i \in Submitted : SubprocessEnds(i)
    \/ \E i \in Submitted : FinishTest(i)
    \/ \E i \in Submitted : WorkerCrash(i)
    \/ \E i \in Submitted : Consume(i)
    \/ WriteCorpus

SpecBatch == InitBatch /\ [][NextBatch]_vars

-----------------------------------------------------------------------------
(* Properties of trace.py *)

\* generate_test_traces was entered and ended with an exception.
BatchRaised == pc = "raised" /\ tests # None

\* C11: every failure while one test is processed (non-zero exit, timeout,
\* missing or malformed report or trace artifact, death of the process that
\* handles it) gives that test an empty result: no future ends without a
\* result and no exception leaves generate_test_traces.
C11_FailureIsolation ==
    /\ \A i \in Submitted : futures[i].state # "broken"
    /\ ~BatchRaised

\* generate_test_traces ended by writing traces.json.
BatchWritten == corpus # None

\* Test i passed and its trace artifact parsed: its traced run exited with
\* status 0, its report says "passed" and its trace.json is valid JSON.
PassedAndParsed(i) ==
    fate[i].exit = "0" /\ fate[i].report = "passed" /\ fate[i].trace = "json"

RecordsOf(test) == { k \in DOMAIN corpus[1] : corpus[1][k].test_id = test }

\* C12: whatever the order in which the workers complete, the corpus holds
\* exactly one record for each submitted test that passed and whose trace
\* artifact parsed and none for any other test; the test id of a record is
\* the submitted id and its call relations are those written by the traced
\* run of that very test.
C12_CorpusExact ==
    BatchWritten =>
        /\ \A i \in Submitted :
              Cardinality(RecordsOf(tests[1][i])) = IF PassedAndParsed(i) THEN 1 ELSE 0
        /\ \A k \in DOMAIN corpus[1] :
              /\ \E i \in Submitted : corpus[1][k].test_id = tests[1][i]
              /\ corpus[1][k].call_relations = corpus[1][k].test_id

\* Both tests were recorded, the second submitted one first.
C12_GatheredOutOfOrder ==
    /\ BatchWritten
    /\ Len(corpus[1]) = 2
    /\ corpus[1][1].test_id = tests[1][2]
    /\ corpus[1][2].test_id = tests[1][1]

\* trace_test has returned for test i.
TestReturned(i) == worker[i] = "returned"

\* C13: when the outcome reported for the test is not "passed", trace_test
\* returns an empty result and never opens the trace artifact.
C13_NotPassedNotRead ==
    \A i \in Submitted :
        (TestReturned(i) /\ fate[i].report # "passed") =>
            /\ futures[i].value = None
            /\ i \notin opened

\* A run that exited with status 0 and valid trace.json, reported as skipped.
C13_SkippedReturned ==
    \E i \in Submitted :
        /\ TestReturned(i)
        /\ fate[i] = Fate("0", "skipped", "json")
        /\ futures[i].state = "finished"

\* generate_test_traces is over: it returned or an exception left it.
BatchEnded == BatchWritten \/ BatchRaised

\* Tests that hold a workspace at the same time hold different ones.
WorkspacesDisjoint ==
    \A i, j \in Submitted :
        (i # j /\ workspace[i] # None /\ workspace[j] # None) => workspace[i] # workspace[j]

\* Once trace_test has returned for a test, on whichever path, the test
\* holds no workspace.
DestroyedOnReturn ==
    \A i \in Submitted : TestReturned(i) => workspace[i] = None

\* No scratch directory exists.
NoWorkspaceLeft == DOMAIN dirs = {}

WorkspaceLifecycleOfWrittenBatch ==
    /\ WorkspacesDisjoint
    /\ DestroyedOnReturn
    /\ BatchWritten => NoWorkspaceLeft

-----------------------------------------------------------------------------
(* hooks.py: main *)

\* The code objects of the program that main runs.
HooksCodes ==
    { Code(<<sep, "proj", sep, "a", ".py">>, "f", 1),
      Code(<<sep, "proj", sep, "a", ".py">>, "g", 5) }

\* The ways runpy.run_module can end: it returns, an exception leaves it, or
\* the program calls sys.exit (pytest's __main__ always does).
Endings == {"return", "Exception", "SystemExit(0)", "SystemExit(1)"}

\* The finally block runs only when the program returns.
finally_on_return(kind) == kind = "return"

\* hooks.py lines 126-132, try ... finally: the finally block runs however
\* the try block is left.
finally_runs(kind) == kind \in Endings

\* After tracer = CallTracer(base_dir=...), line 123.
InitHooks ==
    /\ TracerInit
    /\ main_pc = "tracer.start"
    /\ profile = FALSE
    /\ ending = NotEnded
    /\ io = <<>>
    /\ ArgsIdle
    /\ FuncIdle
    /\ BatchIdle

\* CallTracer.start: sys.setprofile(self.trace_calls)
start ==
    /\ main_pc = "tracer.start"
    /\ profile' = TRUE
    /\ main_pc' = "run_module"
    /\ UNCHANGED <<ending, io, tracerVars, argVars, funcVars, runs, batchVars>>

\* The program runs under the profile hook.
Running == main_pc = "run_module" /\ profile

\* runpy.run_module ends; an exception or SystemExit propagates after the
\* finally block.
run_module_ends(kind) ==
    /\ main_pc = "run_module"
    /\ ending' = kind
    /\ main_pc' = IF finally_runs(kind) THEN "tracer.stop"
                  ELSE IF kind = "return" THEN "returned" ELSE "raised"
    /\ UNCHANGED <<profile, io, tracerVars, argVars, funcVars, runs, batchVars>>

\* CallTracer.stop: sys.setprofile(None)
stop ==
    /\ main_pc = "tracer.stop"
    /\ profile' = FALSE
    /\ io' = Append(io, "stop")
    /\ main_pc' = "tracer.save_to_file"
    /\ UNCHANGED <<ending, tracerVars, argVars, funcVars, runs, batchVars>>

\* tracer.save_to_file(known_args.trace_output), the last statement of the
\* finally block; main then returns or the pending exception goes on.
main_save_to_file ==
    /\ main_pc = "tracer.save_to_file"
    /\ exported' = Some(json_dump(call_records))
    /\ io' = Append(io, "save_to_file")
    /\ main_pc' = IF ending = "return" THEN "returned" ELSE "raised"
    /\ UNCHANGED <<base_dir, cwd, call_stack, call_records, call_records_set,
                   result, real, log, produced, stack_before>>
    /\ UNCHANGED <<profile, ending, argVars, funcVars, runs, batchVars>>

NextHooks ==
    \/ start
    \/ Running /\ \E code \in HooksCodes : CallEvent(code)
    \/ Running /\ ReturnEvent
    \/ \E kind \in Endings : run_module_ends(kind)
    \/ stop
    \/ main_save_to_file

SpecHooks == InitHooks /\ [][NextHooks]_vars

\* main is over: it returned or an exception (SystemExit included) left it.
MainOver == main_pc \in {"returned", "raised"}

\* C15: however the traced program ends (normal return, exception,
\* SystemExit with any code), the tracer is stopped and then the artifact is
\* written, each exactly once and in this order.
C15_StopThenSave ==
    /\ io \in {<<>>, <<"stop">>, <<"stop", "save_to_file">>}
    /\ io # <<>> => ending # NotEnded
    /\ MainOver => /\ io = <<"stop", "save_to_file">>
                   /\ ~profile
                   /\ exported = Some(json_dump(call_records))

\* The program called sys.exit(1) after some recorded call, and main is over.
C15_ExitedWithOne ==
    /\ MainOver
    /\ ending = "SystemExit(1)"
    /\ call_records # <<>>
    /\ io = <<"stop", "save_to_file">>

-----------------------------------------------------------------------------
(* trace.py: progress of the batch *)

\* Every step of main and of a live worker is eventually taken: the pool
\* runs every queued test, subprocess.run returns or is cut off by its
\* timeout, and the as_completed loop takes every future that is done.  The
\* death of a worker process is an event of the environment: it may happen,
\* nothing makes it happen.
FairBatch ==
    /\ WF_vars(CollectTests)
    /\ WF_vars(Submit)
    /\ \A i \in 1..MaxTests :
          /\ WF_vars(i \in Submitted /\ StartTest(i))
          /\ WF_vars(i \in Submitted /\ SubprocessEnds(i))
          /\ WF_vars(i \in Submitted /\ FinishTest(i))
          /\ WF_vars(i \in Submitted /\ Consume(i))
    /\ WF_vars(WriteCorpus)

SpecBatchFair == InitBatch /\ [][NextBatch]_vars /\ FairBatch

\* C16: every submitted test eventually yields a result (a subprocess that
\* does not finish is cut off by the per-test timeout), hence
\* generate_test_traces consumes all its futures and writes the corpus.
C16_BatchTerminates ==
    /\ \A i \in 1..MaxTests :
          (i \in Submitted) ~> (i \in Submitted /\ futures[i].state = "finished")
    /\ (pc = "as_completed") ~> BatchWritten

-----------------------------------------------------------------------------
(* Properties of collect_tests *)

\* The position of the first "[" of a node id, 0 if it has none.
FirstOpen(id) ==
    IF \E j \in 1..Len(id) : id[j] = "["
    THEN CHOOSE j \in 1..Len(id) : id[j] = "[" /\ \A k \in 1..(j - 1) : id[k] # "["
    ELSE 0

\* The canonical id of a node id: the id without its parametrization
\* suffix, the bracketed text that ends the id.
CanonicalId(id) ==
    IF FirstOpen(id) # 0 /\ id[Len(id)] = "]"
    THEN SubSeq(id, 1, FirstOpen(id) - 1)
    ELSE id

\* The canonical ids of the function-level entries of the report.
CanonicalIds ==
    { CanonicalId(report[k].nodeid) :
        k \in { j \in DOMAIN report : report[j].type \in {"Function", "TestCaseFunction"} } }

NoDuplicates(xs) == \A i, j \in DOMAIN xs : xs[i] = xs[j] => i = j

\* C17: without shuffle and without cap, collect_tests returns a list
\* without duplicates whose elements are exactly the canonical ids of the
\* function-level entries of the report.
C17_CanonicalSet ==
    \A k \in DOMAIN runs :
        (~random /\ max_tests = None) =>
            /\ NoDuplicates(runs[k].returned)
            /\ Range(runs[k].returned) = CanonicalIds

\* C18: with the shuffle on, two runs of collect_tests over the same report
\* with the same seed return the tests in the same order.
C18_SameOrder ==
    (random /\ Len(runs) = 2) => runs[1].returned = runs[2].returned

Min(a, b) == IF a < b THEN a ELSE b

\* C19: with a cap N >= 0 over M ids, collect_tests returns exactly the
\* first min(N, M) entries of the list as it is after the shuffle, if any;
\* without cap it returns all M.
C19_Truncation ==
    \A k \in DOMAIN runs :
        LET all == runs[k].ordered
            got == runs[k].returned
        IN  IF max_tests = None
            THEN got = all
            ELSE /\ Len(got) = Min(max_tests[1], Len(all))
                 /\ \A j \in DOMAIN got : got[j] = all[j]

-----------------------------------------------------------------------------
(* Properties of trace.main *)

\* The collection subprocess ended with a non-zero exit status.
CollectionFailed == returncode # None /\ returncode[1] # 0

\* C20: when the collection subprocess exits non-zero, run_pytest raises
\* after clearing the cache exactly once (as it does on success),
\* collect_tests returns no list, main never starts generate_test_traces,
\* no test is traced and no corpus is written.
C20_DiscoveryFailureFatal ==
    /\ CollectionFailed =>
          /\ pc = "raised"
          /\ cache_clears = 1
          /\ tests = None
          /\ Submitted = {}
          /\ DOMAIN dirs = {}
          /\ opened = {}
          /\ traces = <<>>
          /\ corpus = None
    /\ pc = "generate_test_traces" => cache_clears = 1

\* Collection failed on a project that has tests.
C20_FailedWithTests ==
    /\ CollectionFailed
    /\ pc = "raised"
    /\ Len(kept_nodeids(report)) = 2

-----------------------------------------------------------------------------
(* Properties of get_test_func_id *)

\* "<file>:<l+1>:<func>": file the first and func the last "::" segment of
\* the node id without its parametrization suffix.
ExpectedFuncId(res) ==
    LET pieces == split_colons(CanonicalId(res.nodeid), <<>>, <<>>)
    IN  pieces[1] \o <<":">> \o str_int(res.lineno + 1) \o <<":">> \o pieces[Len(pieces)]

\* C21: for a report entry with node id n and 0-based line l,
\* get_test_func_id returns "<file>:<l+1>:<func>", file being the first
\* "::" segment and func the last "::" segment of n with its bracketed
\* parametrization removed; m.py::t1 at line 9 gives m.py:10:t1.
C21_FuncId ==
    test_func_id # None =>
        /\ test_func_id[1] = ExpectedFuncId(test_result)
        /\ test_result = TestResult(NodeId("t1"), 9) =>
              test_func_id[1] = <<"m.py", ":", "1", "0", ":", "t1">>

-----------------------------------------------------------------------------
(* Properties of the tracer's stack and records *)

\* The real stack of active eligible frames, outermost first, as the
\* (relative path, function name, line) frames that stand for them.
ActiveEligibleFrames ==
    LET active == SelectSeq(real, EligibleCode)
    IN  [k \in 1..Len(active) |-> FrameOf(Event("call", active[k]))]

\* C22: direct-caller correctness -- the tracer's logical stack always equals
\* the real stack of active eligible frames, so that the caller of every
\* recorded edge is the innermost eligible frame that was active when the
\* callee was called, for every well-nested stream of call and return events
\* that mixes eligible and ineligible frames.
C22_StackIsRealStack == call_stack = ActiveEligibleFrames

\* C23: every eligible call event pushes exactly one frame (relative path,
\* function name, line) onto the stack, also when no edge is appended because
\* the caller is null or the key of the edge was already seen.
C23_EligibleCallPushes ==
    [][ (EventStep /\ LastEvent'.event = "call" /\ Eligible(LastEvent'))
            => call_stack' = Append(call_stack, FrameOf(LastEvent')) ]_vars

\* call_records_set holds exactly the keys of the entries of call_records,
\* one key for each entry.
KeysMatchRecords ==
    /\ call_records_set = { json_dumps(call_records[i]) : i \in DOMAIN call_records }
    /\ Cardinality(call_records_set) = Len(call_records)
    /\ Cardinality({ StructuralKey(call_records[i]) : i \in DOMAIN call_records })
         = Len(call_records)

\* call_records is extended at its end or left as it is.
AppendOnly ==
    /\ Len(call_records') >= Len(call_records)
    /\ SubSeq(call_records', 1, Len(call_records)) = call_records

\* C24: in every reachable state of one CallTracer, call_records_set is
\* exactly the set of the structural keys of the entries of call_records,
\* with the same cardinality, and call_records only grows by appending: no
\* event removes or reorders a recorded edge.
C24_SetMirrorsRecords == [][KeysMatchRecords' /\ AppendOnly]_vars

\* Two edges are recorded and a return event came after them.
C24_ReturnAfterTwoEdges ==
    /\ Len(call_records) = 2
    /\ Cardinality(call_records_set) = 2
    /\ log # <<>>
    /\ LastEvent.event = "return"
====
